---- MODULE Spec2Model ----
(***************************************************************************)
(* A model of the conversation control core of universal-scraper:          *)
(* AgentScrapper.run (the model/tool loop), AgentScrapper.chat_request     *)
(* (the tenacity-retried provider call), AgentScrapper.optimise_messages   *)
(* (history compaction) and the three dispatched tools                     *)
(* (JinaAiTools.scrape, FireCrawlTools.search, FireCrawlTools.update_data).*)
(*                                                                         *)
(* Python values are modelled as tagged sequences of text atoms:           *)
(*   None      is <<"NoneType">>                                           *)
(*   a str     is <<"str", a1, ..., an>>, the concatenation of its atoms   *)
(* so that None, "" and "None" are three different values and string       *)
(* concatenation / f-string formatting are computed, not assumed.          *)
(***************************************************************************)
EXTENDS Integers, Sequences, FiniteSets, TLC

VARIABLES
  entry,          \* which top-level entry called run: website_search / internet_search
  pc,             \* position inside run
  state,          \* run's local `state` ("unset" before line 292)
  messages,       \* run's local `messages`
  attempt,        \* provider calls made so far by the chat_request in progress
  chat_response,  \* run's local `chat_response`: <<>> is None, <<r>> a response
  tool_idx,       \* position of the for-loop of line 313 in tool_calls
  retval,         \* what run returned (meaningful when pc = "returned")
  exception,      \* the exception that left run (meaningful when pc = "raised")
  data_points,    \* FireCrawlTools.data_points
  jina_links,     \* JinaAiTools.links_scrapped
  fire_links,     \* FireCrawlTools.links_scrapped
  turn,           \* number of main-loop iterations started
  next_id,        \* next tool-call id the provider will hand out
  base,           \* Len(messages) when the current iteration's chat_request returned
  invoked,        \* tools invoked in the current iteration: <<[id, name, result]>>
  user_text,      \* run's system_prompt + " " + prompt
  opt,            \* record of the last optimise_messages call
  upd,            \* record of the last update_data call: the store before, the records
  last_request    \* arguments of the last model request issued (chat.completions.create)

vars == <<entry, pc, state, messages, attempt, chat_response, tool_idx, retval,
          exception, data_points, jina_links, fire_links, turn, next_id, base,
          invoked, user_text, opt, upd, last_request>>

----------------------------------------------------------------------------
(* Bounds of the model *)

\* longest record sequence handed to update_data in SpecFacts
MaxRecords == 2

\* main-loop iterations explored, over both entry points
MaxTurns == 2
\* number of tool calls in the long tool-call turn the provider may emit
\* (one such turn takes a fresh history over the message-count threshold)
BurstLen == 24
\* token estimate of one scraped page (one page exceeds the token threshold)
PageTokens == 10001
\* longest history handed to optimise_messages in SpecOpt
MaxHist == 27

(* Program constants *)

\* stop_after_attempt(3)
MaxAttempts == 3
\* len(messages) > 24
MaxMessages == 24
\* len(encoding.encode(str(messages))) > 10000
MaxTokens == 10000
\* messages[-12:]
KeepLatest == 12

----------------------------------------------------------------------------
(* Python values *)

None == <<"NoneType">>

Str(atoms) == <<"str">> \o atoms

IsStr(v) == v[1] = "str"

\* str + str
Concat(a, b) == <<"str">> \o Tail(a) \o Tail(b)

\* f"{v}": str(None) is the text "None"
Format(v) == IF v = None THEN Str(<<"None">>) ELSE v

\* a is a substring of b (contiguous atoms)
Contains(b, a) ==
  \E i \in 0..(Len(b) - Len(a)) :
     \A k \in 2..Len(a) : b[i + k] = a[k]

Min(a, b) == IF a < b THEN a ELSE b
Max(a, b) == IF a > b THEN a ELSE b

----------------------------------------------------------------------------
(* ToolRegistry: the declarations (by tool name) and the dispatch table *)

scrape_tools == <<"update_data", "scrape">>

search_tools == <<"update_data", "search">>

\* the dispatch table with the search entry forgotten
get_tools_list_NoSearch ==
  [n \in {"scrape", "update_data"} |->
     CASE n = "scrape"      -> "JinaAiTools.scrape"
       [] n = "update_data" -> "FireCrawlTools.update_data"]

\* tool name -> the bound method the table holds
get_tools_list ==
  [n \in {"scrape", "search", "update_data"} |->
     CASE n = "scrape"      -> "JinaAiTools.scrape"
       [] n = "search"      -> "FireCrawlTools.search"
       [] n = "update_data" -> "FireCrawlTools.update_data"]

\* the keyword parameters each dispatched method takes (none has a default)
ToolParams(tool) ==
  CASE tool = "JinaAiTools.scrape"         -> {"url"}
    [] tool = "FireCrawlTools.search"      -> {"query", "entity_name"}
    [] tool = "FireCrawlTools.update_data" -> {"data_to_update"}

Range(s) == {s[i] : i \in 1..Len(s)}

----------------------------------------------------------------------------
(* Messages: the dicts run and optimise_messages build *)

UserMsg(content) == [role |-> "user", content |-> content]

PlanMsg(content) == [role |-> "assistant", content |-> content]

AssistantMsg(content, tool_calls) ==
  [role |-> "assistant", content |-> content, tool_calls |-> tool_calls]

ToolMsg(id, name, content) ==
  [role |-> "tool", tool_call_id |-> id, name |-> name, content |-> content]

SystemMsg(content) == [role |-> "system", content |-> content]

----------------------------------------------------------------------------
(* Token estimate: len(encoding.encode(str(messages))).  Every text atom   *)
(* costs one token except a scraped page, which costs PageTokens; every    *)
(* message costs one more for its dict framing and one per tool call.      *)

AtomTokens(a) == IF a = "PAGE" THEN PageTokens ELSE 1

RECURSIVE AtomsTokens(_)
AtomsTokens(atoms) ==
  IF atoms = <<>> THEN 0 ELSE AtomTokens(Head(atoms)) + AtomsTokens(Tail(atoms))

MsgTokens(m) ==
  1 + AtomsTokens(Tail(Format(m.content)))
    + (IF "tool_calls" \in DOMAIN m THEN Len(m.tool_calls) ELSE 0)

RECURSIVE Tokens(_)
Tokens(msgs) ==
  IF msgs = <<>> THEN 0 ELSE MsgTokens(Head(msgs)) + Tokens(Tail(msgs))

----------------------------------------------------------------------------
(* optimise_messages *)

\* the count test left out
Triggered_TokensOnly(msgs) == Tokens(msgs) > MaxTokens

\* the count test written >= instead of >
Triggered_AtLimit(msgs) == Len(msgs) >= MaxMessages \/ Tokens(msgs) > MaxTokens

\* line 219
Triggered(msgs) == Len(msgs) > MaxMessages \/ Tokens(msgs) > MaxTokens

\* the window cut one message before the end: messages[-13:-1]
LatestMessages_DropLast(msgs) ==
  SubSeq(msgs, Max(1, Len(msgs) - KeepLatest), Len(msgs) - 1)

\* the window one message short: messages[-11:]
LatestMessages_OneShort(msgs) ==
  SubSeq(msgs, Max(1, Len(msgs) - KeepLatest + 2), Len(msgs))

\* line 220: messages[-12:]
LatestMessages(msgs) == SubSeq(msgs, Max(1, Len(msgs) - KeepLatest + 1), Len(msgs))

\* list.index: the first position holding a value equal to m
ListIndex(msgs, m) == CHOOSE i \in 1..Len(msgs) :
                        /\ msgs[i] = m
                        /\ \A j \in 1..(i - 1) : msgs[j] # m

\* lines 224-225: messages[:index]
EarlyMessages(msgs) ==
  SubSeq(msgs, 1, ListIndex(msgs, LatestMessages(msgs)[1]) - 1)

\* line 247
SummarisedPrompt(system_prompt, summary) ==
  Concat(Concat(Format(system_prompt),
                Str(<<"; Here is a summary of past actions taken so far: ">>)),
         Format(summary))

\* what the summarization request of lines 241-246 can come to: a summary
\* text, a response whose content is None, or an exception
SummaryOutcomes ==
  { [ok |-> TRUE,  summary |-> Str(<<"SUMMARY">>)],
    [ok |-> TRUE,  summary |-> None],
    [ok |-> FALSE, summary |-> None] }

\* the except branch returning the retained window instead of the argument
OptimiseMessages_TrimOnFailure(msgs, s) ==
  IF Len(msgs) > MaxMessages \/ Tokens(msgs) > MaxTokens
  THEN IF s.ok
       THEN <<SystemMsg(SummarisedPrompt(msgs[1].content, s.summary))>>
              \o SubSeq(msgs, Max(1, Len(msgs) - KeepLatest + 1), Len(msgs))
       ELSE SubSeq(msgs, Max(1, Len(msgs) - KeepLatest + 1), Len(msgs))
  ELSE msgs

\* lines 213-257; s is the outcome of the summarization request, read only
\* when the compaction is triggered
OptimiseMessages(msgs, s) ==
  IF Triggered(msgs)
  THEN IF s.ok
       THEN <<SystemMsg(SummarisedPrompt(msgs[1].content, s.summary))>>
              \o LatestMessages(msgs)
       ELSE msgs
  ELSE msgs

\* the bookkeeping of one optimise_messages call: its argument, whether it
\* issued the summarization request, what it handed to the summarizer, how
\* the request ended and what it returned
OptRecord(msgs, s) ==
  [called    |-> TRUE,
   input     |-> msgs,
   requested |-> Triggered(msgs),
   early     |-> IF Triggered(msgs) THEN EarlyMessages(msgs) ELSE <<>>,
   ok        |-> Triggered(msgs) /\ s.ok,
   summary   |-> s.summary,
   output    |-> OptimiseMessages(msgs, s)]

NoOpt ==
  [called |-> FALSE, input |-> <<>>, requested |-> FALSE, early |-> <<>>,
   ok |-> FALSE, summary |-> None, output |-> <<>>]

----------------------------------------------------------------------------
(* The provider's side: what a chat completion can carry.  A tool call is  *)
(* [id, name, arguments]; `arguments` is the JSON text the model emitted,  *)
(* kept as whether it parses and the object it parses to.                  *)

Url == Str(<<"https://x.test">>)

JsonText(kwargs) == [wellformed |-> TRUE, kwargs |-> kwargs]

\* a payload cut off in the middle: json.loads raises on it
TruncatedJson(kwargs) == [wellformed |-> FALSE, kwargs |-> kwargs]

FoundedRecord ==
  [name |-> Str(<<"company_founded">>), value |-> Str(<<"2019">>), reference |-> Url]

\* a record naming a fact the store does not hold
StrayRecord ==
  [name |-> Str(<<"company_ceo">>), value |-> Str(<<"Ann">>), reference |-> Url]

CallScrape == [name |-> "scrape", arguments |-> JsonText([url |-> Url])]

CallSearch ==
  [name |-> "search",
   arguments |-> JsonText([query |-> Str(<<"founding year">>),
                           entity_name |-> Str(<<"Grafo">>)])]

CallUpdate ==
  [name |-> "update_data",
   arguments |-> JsonText([data_to_update |-> <<FoundedRecord, StrayRecord>>])]

\* a name the dispatch table does not hold
CallUnknown == [name |-> "browse", arguments |-> JsonText([url |-> Url])]

CallMalformed == [name |-> "scrape", arguments |-> TruncatedJson([url |-> Url])]

\* well-formed JSON whose keys are not the tool's parameters
CallWrongKeys == [name |-> "scrape", arguments |-> JsonText([link |-> Url])]

Burst == [i \in 1..BurstLen |-> CallUpdate]

ToolCallTurns ==
  { <<CallUpdate>>, <<CallScrape, CallUpdate>>, <<CallSearch, CallScrape>>,
    <<CallUnknown, CallUpdate>>, <<CallMalformed, CallUpdate>>,
    <<CallWrongKeys>>, Burst }

\* choices[0] of a completion, before the provider numbers its tool calls
Completions ==
  { [finish_reason |-> "stop",   content |-> Str(<<"Done">>), calls |-> <<>>],
    [finish_reason |-> "length", content |-> Str(<<"More">>), calls |-> <<>>] }
  \cup { [finish_reason |-> "tool_calls", content |-> None, calls |-> c] :
           c \in ToolCallTurns }

\* the plan request's completions: a plan text, or (the request carries the
\* tool declarations) a tool call with no text
PlanCompletions ==
  { [finish_reason |-> "stop", content |-> Str(<<"Plan">>), calls |-> <<>>],
    [finish_reason |-> "tool_calls", content |-> None, calls |-> <<CallScrape>>] }

\* the provider gives every tool call a fresh id
WithIds(calls, first) ==
  [i \in 1..Len(calls) |->
     [id |-> first + i - 1, name |-> calls[i].name, arguments |-> calls[i].arguments]]

\* what one openai.chat.completions.create call can come to: a completion,
\* None handed back as a value (the injected client reporting failure without
\* raising; the only way chat_request yields None), or an exception
ProviderOutcomes(completions) ==
  { [kind |-> "response", completion |-> c] : c \in completions }
  \cup { [kind |-> "none"], [kind |-> "error"] }

----------------------------------------------------------------------------
(* chat_request, one attempt per step.  The except branch of line 176     *)
(* formats the local `response`, which is unbound when create raised, so   *)
(* the attempt leaves the function with UnboundLocalError; tenacity        *)
(* retries any exception and raises RetryError after the third attempt.    *)

\* the retry budget off by one: stop_after_attempt(4)
ChatRequestAttempt_OneMore(n, o, first_id) ==
  CASE o.kind = "response" ->
         [step |-> "return",
          value |-> <<[finish_reason |-> o.completion.finish_reason,
                       content       |-> o.completion.content,
                       tool_calls    |-> WithIds(o.completion.calls, first_id)]>>]
    [] o.kind = "none" ->
         [step |-> "return", value |-> <<>>]
    [] o.kind = "error" ->
         IF n <= MaxAttempts
         THEN [step |-> "retry"]
         ELSE [step |-> "raise", exc |-> "RetryError"]

\* the result of attempt number n (1-based) with provider outcome o:
\*   "return"  chat_request returns `value`
\*   "retry"   tenacity waits and calls the function again
\*   "raise"   chat_request raises `exc`
ChatRequestAttempt(n, o, first_id) ==
  CASE o.kind = "response" ->
         [step |-> "return",
          value |-> <<[finish_reason |-> o.completion.finish_reason,
                       content       |-> o.completion.content,
                       tool_calls    |-> WithIds(o.completion.calls, first_id)]>>]
    [] o.kind = "none" ->
         [step |-> "return", value |-> <<>>]
    [] o.kind = "error" ->
         IF n < MaxAttempts
         THEN [step |-> "retry"]
         ELSE [step |-> "raise", exc |-> "RetryError"]

----------------------------------------------------------------------------
(* The fact store and the dispatched tools *)

\* the names FireCrawlTools is constructed with
DataPointNames == <<Str(<<"company_founded">>), Str(<<"company_location">>)>>

\* FireCrawlTools.__init__, line 12
InitialDataPoints ==
  [i \in 1..Len(DataPointNames) |->
     [name |-> DataPointNames[i], value |-> None, reference |-> None]]

\* the inner loop storing the value and forgetting the reference
ApplyRecord_ValueOnly(dps, data) ==
  [i \in 1..Len(dps) |->
     IF dps[i].name = data.name
     THEN [dps[i] EXCEPT !.value = data.value]
     ELSE dps[i]]

\* the inner loop of update_data for one record
ApplyRecord(dps, data) ==
  [i \in 1..Len(dps) |->
     IF dps[i].name = data.name
     THEN [dps[i] EXCEPT !.value = data.value, !.reference = data.reference]
     ELSE dps[i]]

\* FireCrawlTools.update_data, lines 102-106
RECURSIVE UpdateData(_, _)
UpdateData(dps, data_to_update) ==
  IF data_to_update = <<>> THEN dps
  ELSE UpdateData(ApplyRecord(dps, Head(data_to_update)), Tail(data_to_update))

\* the text of f"{data_to_update}"
RECURSIVE ReprRecords(_)
ReprRecords(recs) ==
  IF recs = <<>> THEN <<>>
  ELSE Tail(Head(recs).name) \o Tail(Head(recs).value)
         \o Tail(Head(recs).reference) \o ReprRecords(Tail(recs))

\* line 108
UpdateDataResult(data_to_update) ==
  Str(<<"updated data: ">> \o ReprRecords(data_to_update))

\* get_data_points_to_search, line 117
RECURSIVE PendingNames(_)
PendingNames(dps) ==
  IF dps = <<>> THEN <<>>
  ELSE (IF Head(dps).value = None THEN Tail(Head(dps).name) ELSE <<>>)
         \o PendingNames(Tail(dps))

\* the text of a list of links
RECURSIVE LinkAtoms(_)
LinkAtoms(links) ==
  IF links = <<>> THEN <<>> ELSE Tail(Head(links)) \o LinkAtoms(Tail(links))

\* how the world can answer a tool: the page fetch of JinaAiTools.scrape
\* returns a short text or a long page or raises (requests.get is not
\* guarded); FireCrawlTools.search returns the extraction text or raises
\* (neither app.search nor the completion call is guarded)
ToolOutcomes(tool) ==
  CASE tool = "JinaAiTools.scrape"         -> {"text", "page", "raise"}
    [] tool = "FireCrawlTools.search"      -> {"text", "raise"}
    [] tool = "FireCrawlTools.update_data" -> {"text"}

\* a search that also files what it found under the first fact
CallTool_SearchWrites(tool, kwargs, outcome, dps, jlinks) ==
  CASE tool = "JinaAiTools.scrape" ->
         IF outcome = "raise"
         THEN [raised |-> TRUE, exc |-> "RequestException", result |-> None,
               data_points |-> dps, jina_links |-> jlinks]
         ELSE [raised |-> FALSE, exc |-> "",
               result |-> IF outcome = "page" THEN Str(<<"PAGE">>)
                          ELSE Str(<<"text of ">> \o Tail(kwargs.url)),
               data_points |-> dps, jina_links |-> Append(jlinks, kwargs.url)]
    [] tool = "FireCrawlTools.search" ->
         IF outcome = "raise"
         THEN [raised |-> TRUE, exc |-> "Exception", result |-> None,
               data_points |-> dps, jina_links |-> jlinks]
         ELSE [raised |-> FALSE, exc |-> "",
               result |-> Str(<<"related_urls_to_scrape_further, info_found">>),
               data_points |-> [dps EXCEPT ![1].value = kwargs.query],
               jina_links |-> jlinks]
    [] tool = "FireCrawlTools.update_data" ->
         [raised |-> FALSE, exc |-> "",
          result |-> UpdateDataResult(kwargs.data_to_update),
          data_points |-> UpdateData(dps, kwargs.data_to_update),
          jina_links |-> jlinks]

\* the effect of tool_to_call(**tool_args): whether it raised, its result and
\* the stores afterwards
CallTool(tool, kwargs, outcome, dps, jlinks) ==
  CASE tool = "JinaAiTools.scrape" ->
         IF outcome = "raise"
         THEN [raised |-> TRUE, exc |-> "RequestException", result |-> None,
               data_points |-> dps, jina_links |-> jlinks]
         ELSE [raised |-> FALSE, exc |-> "",
               result |-> IF outcome = "page" THEN Str(<<"PAGE">>)
                          ELSE Str(<<"text of ">> \o Tail(kwargs.url)),
               data_points |-> dps, jina_links |-> Append(jlinks, kwargs.url)]
    [] tool = "FireCrawlTools.search" ->
         IF outcome = "raise"
         THEN [raised |-> TRUE, exc |-> "Exception", result |-> None,
               data_points |-> dps, jina_links |-> jlinks]
         ELSE [raised |-> FALSE, exc |-> "",
               result |-> Str(<<"related_urls_to_scrape_further, info_found">>),
               data_points |-> dps, jina_links |-> jlinks]
    [] tool = "FireCrawlTools.update_data" ->
         [raised |-> FALSE, exc |-> "",
          result |-> UpdateDataResult(kwargs.data_to_update),
          data_points |-> UpdateData(dps, kwargs.data_to_update),
          jina_links |-> jlinks]

----------------------------------------------------------------------------
(* The entry points and run *)

\* website_search, lines 349-375
WebsitePrompt(dps) ==
  Str(<<"Entity to search: Grafo", "Website to search: site",
        "Data points to search: ">> \o PendingNames(dps))

\* internet_search, lines 391-418
InternetPrompt(dps, links) ==
  Str(<<"Entity to search: Grafo", "Links we already scraped: ">>
        \o LinkAtoms(links)
        \o <<"Data points to search: ">> \o PendingNames(dps))

ScraperSystemPrompt == Str(<<"you are a world class web scraper">>)

ResearcherSystemPrompt == Str(<<"you are a world class web researcher">>)

\* system_prompt + " " + prompt
UserText(system_prompt, prompt) == Concat(Concat(system_prompt, Str(<<" ">>)), prompt)

PlanSuffix == Str(<<" Let's think step by step, make a plan first">>)

\* the tool declarations run is called with
ToolDefinitions(e) == IF e = "website_search" THEN scrape_tools ELSE search_tools

\* the plan flag run is called with
PlanFlag(e) == e = "website_search"

\* the arguments of the model requests the program issues
NoRequest == [kind |-> "none", tools |-> <<>>, tool_choice |-> None]

\* run line 281: chat_request(messages, tool_definitions, tool_choice=None)
PlanRequestArgs(e) ==
  [kind |-> "plan", tools |-> ToolDefinitions(e), tool_choice |-> None]

\* run line 297: chat_request(messages, tool_definitions, tool_choice=None)
ChatRequestArgs(e) ==
  [kind |-> "chat", tools |-> ToolDefinitions(e), tool_choice |-> None]

\* optimise_messages lines 241-245: no tools argument
SummaryRequestArgs == [kind |-> "summary", tools |-> <<>>, tool_choice |-> None]

\* FireCrawlTools.search lines 85-90: no tools argument
SearchRequestArgs == [kind |-> "search", tools |-> <<>>, tool_choice |-> None]

\* no update_data call yet
NoUpdate == [called |-> FALSE, before |-> <<>>, records |-> <<>>]

Init ==
  /\ entry = "none"
  /\ pc = "app"
  /\ state = "unset"
  /\ messages = <<>>
  /\ attempt = 0
  /\ chat_response = <<>>
  /\ tool_idx = 0
  /\ retval = None
  /\ exception = ""
  /\ data_points = InitialDataPoints
  /\ jina_links = <<>>
  /\ fire_links = <<>>
  /\ turn = 0
  /\ next_id = 1
  /\ base = 0
  /\ invoked = <<>>
  /\ user_text = None
  /\ opt = NoOpt
  /\ upd = NoUpdate
  /\ last_request = NoRequest

\* run lines 272-292 up to its first chat_request, for a fresh call of run
StartRun(e, text) ==
  /\ entry' = e
  /\ user_text' = text
  /\ attempt' = 0
  /\ chat_response' = <<>>
  /\ tool_idx' = 0
  /\ base' = 0
  /\ invoked' = <<>>
  /\ opt' = NoOpt
  /\ last_request' = NoRequest
  /\ IF PlanFlag(e)
     THEN /\ messages' = <<UserMsg(Concat(text, PlanSuffix))>>
          /\ state' = "unset"
          /\ pc' = "plan"
     ELSE /\ messages' = <<UserMsg(text)>>
          /\ state' = "running"
          /\ pc' = "loop_test"
  /\ UNCHANGED <<retval, exception, data_points, jina_links, fire_links, turn, next_id,
                 upd>>

\* app.py step 1: agent.website_search(entity_name, website)
WebsiteSearch ==
  /\ pc = "app"
  /\ StartRun("website_search", UserText(ScraperSystemPrompt, WebsitePrompt(data_points)))

\* app.py step 2: agent.internet_search(entity_name), after step 1 returned
InternetSearch ==
  /\ pc = "returned"
  /\ entry = "website_search"
  /\ StartRun("internet_search",
              UserText(ResearcherSystemPrompt, InternetPrompt(data_points, fire_links)))

\* run lines 281-288: one provider attempt of the plan request
PlanRequest ==
  /\ pc = "plan"
  /\ \E o \in ProviderOutcomes(PlanCompletions) :
       LET r == ChatRequestAttempt(attempt + 1, o, next_id) IN
       CASE r.step = "retry" ->
              /\ attempt' = attempt + 1
              /\ UNCHANGED <<pc, state, messages, retval, exception>>
         [] r.step = "raise" ->
              /\ attempt' = attempt + 1
              /\ pc' = "raised"
              /\ exception' = r.exc
              /\ UNCHANGED <<state, messages, retval>>
         [] r.step = "return" /\ r.value = <<>> ->
              /\ attempt' = attempt + 1
              /\ pc' = "returned"
              /\ retval' = None
              /\ UNCHANGED <<state, messages, exception>>
         [] r.step = "return" /\ r.value # <<>> ->
              /\ attempt' = attempt + 1
              /\ messages' = <<UserMsg(user_text), PlanMsg(r.value[1].content)>>
              /\ state' = "running"
              /\ pc' = "loop_test"
              /\ UNCHANGED <<retval, exception>>
  /\ last_request' = PlanRequestArgs(entry)
  /\ UNCHANGED <<entry, chat_response, tool_idx, data_points, jina_links, fire_links,
                 turn, next_id, base, invoked, user_text, opt, upd>>

\* run line 296 and line 336: the loop test, and the return once the loop is left
LoopTest ==
  /\ pc = "loop_test"
  /\ IF state = "running"
     THEN /\ turn < MaxTurns
          /\ turn' = turn + 1
          /\ attempt' = 0
          /\ pc' = "chat"
          /\ UNCHANGED retval
     ELSE /\ pc' = "returned"
          /\ retval' = messages[Len(messages)].content
          /\ UNCHANGED <<turn, attempt>>
  /\ UNCHANGED <<entry, state, messages, chat_response, tool_idx, exception, data_points,
                 jina_links, fire_links, next_id, base, invoked, user_text, opt, upd,
                 last_request>>

\* run line 297: one provider attempt of the main-loop chat request
ChatRequest ==
  /\ pc = "chat"
  /\ \E o \in ProviderOutcomes(Completions) :
       LET r == ChatRequestAttempt(attempt + 1, o, next_id) IN
       CASE r.step = "retry" ->
              /\ attempt' = attempt + 1
              /\ UNCHANGED <<pc, chat_response, exception, next_id, base>>
         [] r.step = "raise" ->
              /\ attempt' = attempt + 1
              /\ pc' = "raised"
              /\ exception' = r.exc
              /\ UNCHANGED <<chat_response, next_id, base>>
         [] r.step = "return" ->
              /\ attempt' = attempt + 1
              /\ chat_response' = r.value
              /\ next_id' = next_id +
                   (IF r.value = <<>> THEN 0 ELSE Len(r.value[1].tool_calls))
              /\ base' = Len(messages)
              /\ pc' = "got_response"
              /\ UNCHANGED exception
  /\ last_request' = ChatRequestArgs(entry)
  /\ UNCHANGED <<entry, state, messages, tool_idx, retval, data_points, jina_links,
                 fire_links, turn, invoked, user_text, opt, upd>>

\* run lines 298-312: the failure branch, or the assistant message and the
\* choice of the tool-call branch
HandleResponse ==
  /\ pc = "got_response"
  /\ IF chat_response = <<>>
     THEN /\ state' = "finished"
          /\ pc' = "loop_test"
          /\ UNCHANGED <<messages, tool_idx, invoked>>
     ELSE LET current_choice == chat_response[1] IN
          /\ messages' = Append(messages,
               AssistantMsg(current_choice.content, current_choice.tool_calls))
          /\ invoked' = <<>>
          /\ tool_idx' = 1
          /\ pc' = IF current_choice.finish_reason = "tool_calls"
                      /\ Len(current_choice.tool_calls) > 0
                   THEN "dispatch" ELSE "post_dispatch"
          /\ UNCHANGED state
  /\ UNCHANGED <<entry, attempt, chat_response, retval, exception, data_points,
                 jina_links, fire_links, turn, next_id, base, user_text, opt, upd,
                 last_request>>

\* a parser that hands back whatever it could read instead of raising
JsonLoads_Lenient(text) == [raised |-> FALSE, value |-> text.kwargs]

\* json.loads(tool_call.function.arguments), line 315
JsonLoads(text) ==
  IF text.wellformed
  THEN [raised |-> FALSE, value |-> text.kwargs]
  ELSE [raised |-> TRUE,  value |-> text.kwargs]

\* the tool message put in front of the history instead of at its end
AppendToolMessage_Prepend(msgs, id, name, result) ==
  <<ToolMsg(id, name, result)>> \o msgs

\* run lines 320-325: messages.append({"role": "tool", ...})
AppendToolMessage(msgs, id, name, result) == Append(msgs, ToolMsg(id, name, result))

\* a bound method is truthy (line 318)
Truthy(tool) == tool # ""

\* run lines 313-329: one pass of the for-loop body
DispatchToolCall ==
  /\ pc = "dispatch"
  /\ LET tool_call == chat_response[1].tool_calls[tool_idx]
         tool_name == tool_call.name
         parsed    == JsonLoads(tool_call.arguments)
         last      == tool_idx = Len(chat_response[1].tool_calls)
         Raise(exc) ==
           /\ pc' = "raised"
           /\ exception' = exc
           /\ UNCHANGED <<messages, tool_idx, retval, data_points, jina_links, invoked,
                          upd, last_request>>
     IN
     IF parsed.raised THEN Raise("JSONDecodeError")
     ELSE IF tool_name \notin DOMAIN get_tools_list THEN Raise("KeyError")
     ELSE LET tool_to_call == get_tools_list[tool_name] IN
       IF ~Truthy(tool_to_call)
       THEN /\ pc' = "returned"
            /\ retval' = None
            /\ UNCHANGED <<messages, tool_idx, exception, data_points, jina_links, invoked,
                           upd, last_request>>
       ELSE IF DOMAIN parsed.value # ToolParams(tool_to_call) THEN Raise("TypeError")
       ELSE \E outcome \in ToolOutcomes(tool_to_call) :
              LET c == CallTool(tool_to_call, parsed.value, outcome,
                                data_points, jina_links) IN
              IF c.raised THEN Raise(c.exc)
              ELSE /\ messages' = AppendToolMessage(messages, tool_call.id,
                                                    tool_name, c.result)
                   /\ invoked' = Append(invoked,
                        [id |-> tool_call.id, name |-> tool_name, result |-> c.result])
                   /\ data_points' = c.data_points
                   /\ jina_links' = c.jina_links
                   /\ upd' = IF tool_to_call = "FireCrawlTools.update_data"
                             THEN [called  |-> TRUE,
                                   before  |-> data_points,
                                   records |-> parsed.value.data_to_update]
                             ELSE upd
                   /\ last_request' = IF tool_to_call = "FireCrawlTools.search"
                                      THEN SearchRequestArgs ELSE last_request
                   /\ tool_idx' = tool_idx + 1
                   /\ pc' = IF last THEN "post_dispatch" ELSE "dispatch"
                   /\ UNCHANGED <<retval, exception>>
  /\ UNCHANGED <<entry, state, attempt, chat_response, fire_links, turn, next_id, base,
                 user_text, opt>>

\* run lines 331-332: the stop test
StopTest ==
  /\ pc = "post_dispatch"
  /\ state' = IF chat_response[1].finish_reason = "stop" THEN "finished" ELSE state
  /\ pc' = "optimise"
  /\ UNCHANGED <<entry, messages, attempt, chat_response, tool_idx, retval, exception,
                 data_points, jina_links, fire_links, turn, next_id, base, invoked,
                 user_text, opt, upd, last_request>>

\* run line 334: the compaction that ends the iteration
FinishTurn ==
  /\ pc = "optimise"
  /\ \E s \in SummaryOutcomes :
       /\ opt' = OptRecord(messages, s)
       /\ messages' = OptimiseMessages(messages, s)
       /\ last_request' = IF OptRecord(messages, s).requested
                          THEN SummaryRequestArgs ELSE last_request
  /\ pc' = "loop_test"
  /\ UNCHANGED <<entry, state, attempt, chat_response, tool_idx, retval, exception,
                 data_points, jina_links, fire_links, turn, next_id, base, invoked,
                 user_text, upd>>

Next ==
  \/ WebsiteSearch
  \/ InternetSearch
  \/ PlanRequest
  \/ LoopTest
  \/ ChatRequest
  \/ HandleResponse
  \/ DispatchToolCall
  \/ StopTest
  \/ FinishTurn

Spec == Init /\ [][Next]_vars

----------------------------------------------------------------------------
(* optimise_messages on its own: SpecOpt hands it histories of every       *)
(* length up to MaxHist, with all messages distinct, with repeated         *)
(* messages, and with zero to two scraped pages at the front or the back.  *)

\* message i of a generated history of n messages
GenMessage(n, i, shape, pages, where) ==
  IF i = 1 THEN UserMsg(Str(<<"instruction">>))
  ELSE LET paged == IF where = "front" THEN i - 1 <= pages ELSE n - i < pages IN
       IF paged THEN ToolMsg(i, "scrape", Str(<<"PAGE">>))
       ELSE CASE shape = "distinct"  -> ToolMsg(i, "update_data", Str(<<"updated data: ">>))
              [] shape = "same"      -> AssistantMsg(Str(<<"More">>), <<>>)
              [] shape = "alternate" ->
                   IF i % 2 = 0 THEN AssistantMsg(Str(<<"More">>), <<>>)
                   ELSE AssistantMsg(Str(<<"Again">>), <<>>)

Histories ==
  { [i \in 1..n |-> GenMessage(n, i, shape, pages, where)] :
      n \in 1..MaxHist, shape \in {"distinct", "same", "alternate"},
      pages \in 0..2, where \in {"front", "back"} }

InitOpt ==
  /\ entry = "none"
  /\ pc = "opt_input"
  /\ state = "unset"
  /\ messages \in Histories
  /\ attempt = 0
  /\ chat_response = <<>>
  /\ tool_idx = 0
  /\ retval = None
  /\ exception = ""
  /\ data_points = InitialDataPoints
  /\ jina_links = <<>>
  /\ fire_links = <<>>
  /\ turn = 0
  /\ next_id = 1
  /\ base = 0
  /\ invoked = <<>>
  /\ user_text = None
  /\ opt = NoOpt
  /\ upd = NoUpdate
  /\ last_request = NoRequest

\* one call optimise_messages(messages)
OptimiseCall ==
  /\ pc = "opt_input"
  /\ \E s \in SummaryOutcomes :
       /\ opt' = OptRecord(messages, s)
       /\ messages' = OptimiseMessages(messages, s)
       /\ last_request' = IF OptRecord(messages, s).requested
                          THEN SummaryRequestArgs ELSE last_request
  /\ pc' = "opt_done"
  /\ UNCHANGED <<entry, state, attempt, chat_response, tool_idx, retval, exception,
                 data_points, jina_links, fire_links, turn, next_id, base, invoked,
                 user_text, upd>>

NextOpt == OptimiseCall

SpecOpt == InitOpt /\ [][NextOpt]_vars

----------------------------------------------------------------------------
(* update_data on its own: SpecFacts adds to the runs of Spec direct calls  *)
(* of update_data on every store of the two facts (each unset or already    *)
(* found) with every record sequence up to MaxRecords.                      *)

OldUrl == Str(<<"https://old.test">>)

\* a second finding for the same fact, from another page
RefoundedRecord ==
  [name |-> Str(<<"company_founded">>), value |-> Str(<<"2020">>), reference |-> OldUrl]

LocationRecord ==
  [name |-> Str(<<"company_location">>), value |-> Str(<<"Kochi">>), reference |-> Url]

Records == {FoundedRecord, RefoundedRecord, LocationRecord, StrayRecord}

RECURSIVE SeqsUpTo(_, _)
SeqsUpTo(S, n) ==
  IF n = 0 THEN {<<>>}
  ELSE SeqsUpTo(S, n - 1)
       \cup {Append(q, x) : q \in {r \in SeqsUpTo(S, n - 1) : Len(r) = n - 1}, x \in S}

\* the stores update_data can meet: each fact unset or found earlier
Stores ==
  { [i \in 1..Len(DataPointNames) |->
       IF i \in found
       THEN [name |-> DataPointNames[i], value |-> Str(<<"old">>), reference |-> OldUrl]
       ELSE [name |-> DataPointNames[i], value |-> None, reference |-> None]] :
      found \in SUBSET (1..Len(DataPointNames)) }

InitFacts ==
  /\ entry = "none"
  /\ pc = "upd_input"
  /\ state = "unset"
  /\ messages = <<>>
  /\ attempt = 0
  /\ chat_response = <<>>
  /\ tool_idx = 0
  /\ retval = None
  /\ exception = ""
  /\ data_points \in Stores
  /\ jina_links = <<>>
  /\ fire_links = <<>>
  /\ turn = 0
  /\ next_id = 1
  /\ base = 0
  /\ invoked = <<>>
  /\ user_text = None
  /\ opt = NoOpt
  /\ \E recs \in SeqsUpTo(Records, MaxRecords) :
        upd = [called |-> FALSE, before |-> data_points, records |-> recs]
  /\ last_request = NoRequest

\* one call update_data(data_to_update)
UpdateDataCall ==
  /\ pc = "upd_input"
  /\ data_points' = UpdateData(data_points, upd.records)
  /\ retval' = UpdateDataResult(upd.records)
  /\ upd' = [upd EXCEPT !.called = TRUE]
  /\ pc' = "upd_done"
  /\ UNCHANGED <<entry, state, messages, attempt, chat_response, tool_idx, exception,
                 jina_links, fire_links, turn, next_id, base, invoked, user_text, opt,
                 last_request>>

NextFacts == Next \/ UpdateDataCall

SpecFacts == (Init \/ InitFacts) /\ [][NextFacts]_vars

----------------------------------------------------------------------------
(* Properties *)

\* the main-loop response run is working on, when there is one
HasResponse == chat_response # <<>>

FinishReason == chat_response[1].finish_reason

\* C1: whenever the main-loop response has finish reason "stop", run moves to
\* finished and returns exactly the content of that final assistant message,
\* whether or not optimise_messages compacted the history after the stop turn.
C1_StopReturnsFinalContent ==
  (HasResponse /\ FinishReason = "stop") =>
     /\ pc \in {"loop_test", "returned"} => state = "finished"
     /\ pc = "returned" => retval = chat_response[1].content
     /\ pc # "raised"

\* a stop turn whose history was compacted before run returned
C1_Witness ==
  /\ pc = "returned"
  /\ HasResponse /\ FinishReason = "stop"
  /\ opt.ok
  /\ retval = Str(<<"Done">>)

\* C2: if a main-loop chat request yields the failure signal, run moves to
\* finished and returns null, never the content of an earlier message.
C2_ChatFailureReturnsNull ==
  (pc = "returned" /\ state = "finished" /\ ~HasResponse) => retval = None

\* C3: one invocation of chat_request makes at most MaxAttempts provider
\* calls, whatever mix of errors and successes the provider shows, and its
\* last call is the one that succeeded: a provider call (attempt growing by
\* one) happens only inside an invocation that has not returned, every
\* invocation starts counting at zero, and the step on which chat_request
\* returns or raises is itself a provider call.
C3_RetryBudget ==
  [][ /\ attempt' <= MaxAttempts
      /\ (attempt' # attempt /\ attempt' # 0) =>
            (pc \in {"plan", "chat"} /\ attempt' = attempt + 1)
      /\ (pc \in {"plan", "chat"} /\ pc' \notin {"plan", "chat"}) =>
            attempt' = attempt + 1
      /\ (pc \notin {"plan", "chat"} /\ pc' \in {"plan", "chat"}) => attempt' = 0
    ]_vars

\* a request that succeeded on its third attempt
C3_Witness == pc = "got_response" /\ attempt = MaxAttempts /\ HasResponse

\* C4: when every provider attempt of one chat_request errors, chat_request
\* hands the failure signal back as a value and does not raise.
C4_ExhaustionReturnsNone == pc = "raised" => exception # "RetryError"

\* C5: a history of at most 24 messages and at most 10,000 estimated tokens
\* comes back unchanged and no summarization request is issued.
C5_BelowThresholdsIdentity ==
  (pc = "opt_done" /\ Len(opt.input) <= 24 /\ Tokens(opt.input) <= 10000) =>
     /\ messages = opt.input
     /\ ~opt.requested

\* a history of exactly 24 small messages went through untouched
C5_Witness ==
  /\ pc = "opt_done"
  /\ Len(opt.input) = 24
  /\ Tokens(opt.input) <= 10000
  /\ messages = opt.input

\* C6: a history over either threshold with at least 13 messages, compacted
\* successfully, comes back as 13 messages: a system message whose content is
\* the original first content followed by the summary, then the 12 most
\* recent messages verbatim and in order.
C6_CompactionShape ==
  (/\ pc = "opt_done"
   /\ (Len(opt.input) > 24 \/ Tokens(opt.input) > 10000)
   /\ Len(opt.input) >= 13
   /\ opt.ok) =>
     /\ Len(messages) = 13
     /\ messages[1].role = "system"
     /\ Contains(messages[1].content, opt.input[1].content)
     /\ SubSeq(messages[1].content, 1, Len(opt.input[1].content)) = opt.input[1].content
     /\ LET tail == Tail(Format(opt.summary)) IN
        SubSeq(messages[1].content, Len(messages[1].content) - Len(tail) + 1,
               Len(messages[1].content)) = tail
     /\ Len(messages[1].content) > Len(opt.input[1].content)
     /\ \A i \in 1..12 : messages[1 + i] = opt.input[Len(opt.input) - 12 + i]

\* a history of more than 24 messages compacted with a summary text
C6_Witness ==
  /\ pc = "opt_done"
  /\ Len(opt.input) > 24
  /\ opt.ok
  /\ opt.summary = Str(<<"SUMMARY">>)
  /\ Len(messages) = 13

\* C7: when the summarization request of a triggered compaction fails,
\* optimise_messages hands back its argument unchanged, nothing is raised, and
\* the loop goes on with that history (the state stays running unless the
\* turn was a stop turn).
C7_FailedSummaryKeepsHistory ==
  (pc = "loop_test" /\ HasResponse /\ opt.called /\ opt.requested /\ ~opt.ok) =>
     /\ messages = opt.input
     /\ exception = ""
     /\ FinishReason # "stop" => state = "running"

\* a failed summarization after a tool-call turn, the run still running
C7_Witness ==
  /\ pc = "loop_test"
  /\ HasResponse /\ FinishReason = "tool_calls"
  /\ opt.requested /\ ~opt.ok
  /\ state = "running"
  /\ Len(messages) > 24

\* C8: every tool name declared by scrape_tools or search_tools has an entry
\* in the dispatch table, and both declaration sets include update_data
\* (stated of the declarations each entry point passes to run, before the
\* entry points are called and while each is running).
C8_DispatchComplete ==
  \A e \in {"website_search", "internet_search"} :
     (entry \in {"none", e}) =>
        /\ \A n \in Range(ToolDefinitions(e)) : n \in DOMAIN get_tools_list
        /\ "update_data" \in Range(ToolDefinitions(e))

\* a declared tool of the running entry was found in the table and invoked
C8_Witness ==
  /\ entry = "internet_search"
  /\ invoked # <<>>
  /\ invoked[1].name = "search"
  /\ invoked[1].name \in Range(ToolDefinitions(entry))

\* the call the for-loop stands at
AtCall ==
  /\ HasResponse
  /\ FinishReason = "tool_calls"
  /\ tool_idx \in 1..Len(chat_response[1].tool_calls)

\* C9: when a response requests a tool name that is not in the dispatch
\* table, run yields a null result (and issues nothing further).
C9_UnknownToolReturnsNull ==
  (/\ pc \in {"returned", "raised"}
   /\ AtCall
   /\ chat_response[1].tool_calls[tool_idx].arguments.wellformed
   /\ chat_response[1].tool_calls[tool_idx].name \notin DOMAIN get_tools_list) =>
     (pc = "returned" /\ retval = None)

Hits(before, records, i) == {k \in 1..Len(records) : records[k].name = before[i].name}

SetMax(S) == CHOOSE m \in S : \A k \in S : k <= m

\* the history of the scripted scenario: one update_data turn, then a stop
ScriptedScenario ==
  LET seed == IF PlanFlag(entry) THEN 2 ELSE 1 IN
  /\ pc = "returned"
  /\ HasResponse /\ FinishReason = "stop"
  /\ Len(messages) = seed + 3
  /\ messages[seed + 1].role = "assistant"
  /\ DOMAIN messages[seed + 1] = {"role", "content", "tool_calls"}
  /\ Len(messages[seed + 1].tool_calls) = 1
  /\ messages[seed + 1].tool_calls[1].name = "update_data"
  /\ messages[seed + 2].role = "tool"
  /\ messages[seed + 3].role = "assistant"

\* C11: update_data sets, for each record naming a known fact, that fact's
\* value and reference to the record's (the last such record standing);
\* records with unknown names change nothing and every fact no record names
\* keeps its value and reference.  In the scripted scenario (one update_data
\* turn naming company_founded, then a stop) company_founded is "2019",
\* company_location is unset and run returns "Done".
C11_UpdateDataFrame ==
  /\ upd.called =>
       /\ Len(data_points) = Len(upd.before)
       /\ \A i \in 1..Len(upd.before) :
            LET hits == Hits(upd.before, upd.records, i) IN
            /\ data_points[i].name = upd.before[i].name
            /\ IF hits = {}
               THEN data_points[i] = upd.before[i]
               ELSE /\ data_points[i].value = upd.records[SetMax(hits)].value
                    /\ data_points[i].reference = upd.records[SetMax(hits)].reference
  /\ ScriptedScenario =>
       /\ retval = Str(<<"Done">>)
       /\ data_points[1] = [name |-> Str(<<"company_founded">>),
                            value |-> Str(<<"2019">>), reference |-> Url]
       /\ data_points[2].value = None /\ data_points[2].reference = None

\* a found fact overwritten and a stray record ignored, the other fact kept
C11_Witness ==
  /\ pc = "upd_done"
  /\ upd.called
  /\ upd.records = <<RefoundedRecord, StrayRecord>>
  /\ upd.before[1].value = Str(<<"old">>)
  /\ data_points[1].value = Str(<<"2020">>)
  /\ data_points[2] = upd.before[2]

\* the ids of the tool calls a message carries
ToolCallIds(m) ==
  IF "tool_calls" \in DOMAIN m
  THEN {m.tool_calls[k].id : k \in 1..Len(m.tool_calls)}
  ELSE {}

\* C12: in every history run passes to a model request, each tool message
\* carries a tool_call_id that references a tool_calls entry of an assistant
\* message earlier in that same history.
C12_ToolMessagesReferenced ==
  pc \in {"plan", "chat"} =>
     \A i \in 1..Len(messages) :
        messages[i].role = "tool" =>
           \E j \in 1..(i - 1) :
              /\ messages[j].role = "assistant"
              /\ messages[i].tool_call_id \in ToolCallIds(messages[j])

\* C13: when a tool call's argument payload does not parse, the run is
\* aborted at that call: the step that meets the call leaves run with the
\* parse error without invoking the tool, appending a tool message or
\* touching the stores, and nothing (no later tool call, no model request)
\* happens after it.
C13_MalformedArgumentsAbort ==
  [][ /\ (pc = "dispatch"
          /\ ~chat_response[1].tool_calls[tool_idx].arguments.wellformed) =>
            /\ pc' = "raised"
            /\ exception' = "JSONDecodeError"
            /\ UNCHANGED <<messages, invoked, tool_idx, data_points, jina_links,
                           fire_links, upd, last_request, attempt, turn>>
      /\ pc # "raised"
    ]_vars

\* the run aborted at a malformed first call with a second call still pending
C13_Witness ==
  /\ pc = "raised"
  /\ exception = "JSONDecodeError"
  /\ AtCall
  /\ tool_idx = 1
  /\ Len(chat_response[1].tool_calls) = 2
  /\ invoked = <<>>
  /\ Len(messages) = base + 1

\* the plan request has returned a completion and the main loop is about to
\* be entered for the first time
PlanJustReturned ==
  /\ pc = "loop_test"
  /\ PlanFlag(entry)
  /\ ~opt.called
  /\ ~HasResponse
  /\ state = "running"

\* C14: in plan-first mode run issues exactly one preliminary model request
\* before the main loop, and that request passes no tool declarations.
C14_PlanRequestWithoutTools ==
  /\ last_request.kind = "plan" => last_request.tools = <<>>
  /\ PlanJustReturned => attempt = 1

\* run ended inside the plan request, before the main loop was entered
PlanRequestFailed ==
  /\ pc \in {"returned", "raised"}
  /\ PlanFlag(entry)
  /\ state = "unset"

\* the first main-loop request of the running entry is being issued
FirstLoopRequest == pc = "chat" /\ ~opt.called

\* C15: the first main-loop request gets [user: instruction+prompt,
\* assistant: plan] in plan-first mode after a successful plan request and
\* [user: instruction+prompt] otherwise; when the plan request fails run
\* returns null (without any main-loop request or tool invocation).
C15_SeedHistory ==
  /\ FirstLoopRequest =>
       IF PlanFlag(entry)
       THEN /\ Len(messages) = 2
            /\ messages[1] = [role |-> "user", content |-> user_text]
            /\ messages[2].role = "assistant"
            /\ DOMAIN messages[2] = {"role", "content"}
       ELSE messages = <<[role |-> "user", content |-> user_text]>>
  /\ PlanRequestFailed =>
       /\ pc = "returned"
       /\ retval = None
       /\ ~HasResponse
       /\ invoked = <<>>

\* the call the for-loop stands at was handed to its tool: its arguments
\* parsed, its name is in the table and its keys are the tool's parameters
CallWasInvoked ==
  /\ AtCall
  /\ LET tc == chat_response[1].tool_calls[tool_idx] IN
     /\ tc.arguments.wellformed
     /\ tc.name \in DOMAIN get_tools_list
     /\ DOMAIN tc.arguments.kwargs = ToolParams(get_tools_list[tc.name])

\* C16: when a dispatched tool's downstream operation fails, the tool hands
\* back a degraded or empty result and never raises to the controller, which
\* appends a tool message for the call and goes on.
C16_ToolsNeverRaise == CallWasInvoked => pc # "raised"

\* the names of the facts of a store, in order
FactNames(dps) == [i \in 1..Len(dps) |-> dps[i].name]

\* C17: across a run the facts' values and references change only during an
\* update_data tool call (never on a chat, plan or summarization request nor
\* on a scrape or search call), and the set of fact names never changes.
C17_OnlyUpdateDataWrites ==
  [][ /\ data_points' # data_points =>
            /\ pc = "dispatch"
            /\ chat_response[1].tool_calls[tool_idx].name = "update_data"
      /\ FactNames(data_points') = FactNames(data_points)
    ]_vars

\* a run in which a page was scraped, a history compacted and an update_data
\* call changed a fact
C17_Witness ==
  /\ upd.called
  /\ data_points # InitialDataPoints
  /\ jina_links # <<>>
  /\ opt.ok
  /\ pc = "chat"

\* C18: provided the summarization requests succeed, every main-loop request
\* after the first iteration is issued with a history of at most 24 messages,
\* however many tool calls the turns carried (stated of the request that
\* follows a compaction that was not needed or whose summarization succeeded).
C18_BoundedRequestHistory ==
  (pc = "chat" /\ opt.called /\ (opt.requested => opt.ok)) => Len(messages) <= 24

\* a request issued right after a history of more than 24 messages was compacted
C18_Witness ==
  /\ pc = "chat"
  /\ opt.ok
  /\ Len(opt.input) > 24
  /\ Len(messages) = 13

\* C19: optimise_messages never returns a history with more messages than
\* it was given, also for 12 or fewer messages over the token threshold.
C19_NeverGrows == pc = "opt_done" => Len(messages) <= Len(opt.input)

\* the messages of a history before its retained window, by position
BeforeWindow(msgs) == SubSeq(msgs, 1, Len(msgs) - Len(LatestMessages(msgs)))

\* C20: in a triggered compaction the early messages handed to the summarizer
\* are exactly the messages before the retained 12-message window, so every
\* message is summarized or retained, also when the history holds equal
\* messages.
C20_EarlyIsBeforeWindow ==
  (pc = "opt_done" /\ opt.requested) =>
     /\ opt.early = BeforeWindow(opt.input)
     /\ opt.early \o LatestMessages(opt.input) = opt.input

----------------------------------------------------------------------------
\* run is between its first statement and its return or its exception
InRun == pc \in {"plan", "loop_test", "chat", "got_response", "dispatch",
                 "post_dispatch", "optimise"}

\* the step issues a model request (lines 281, 297, 241) or invokes a tool
\* (line 319)
IssuesRequestOrCall ==
  \/ pc \in {"plan", "chat"}
  \/ pc = "optimise" /\ opt'.requested
  \/ pc = "dispatch" /\ pc' # "raised" /\ invoked' # invoked
  \/ last_request' # last_request

\* C21: finished is terminal: while run has not returned, a step taken with
\* state = finished issues no model request (chat or summarization) and
\* invokes no tool; and the state becomes finished only on a chat failure or
\* on a response whose finish reason is "stop", every other response leaving
\* it running.
C21_FinishedIsTerminal ==
  [][ /\ (InRun /\ state = "finished") => ~IssuesRequestOrCall
      /\ (state # "finished" /\ state' = "finished") =>
            (~HasResponse \/ FinishReason = "stop")
      /\ (pc = "post_dispatch" /\ FinishReason # "stop") => state' = "running"
    ]_vars

----------------------------------------------------------------------------
\* internet_search line 410: the list the prompt's "Links we already
\* scraped" part is built from
get_links_scrapped == fire_links

\* the url argument of the i-th tool call of the current response
CallUrl(i) == chat_response[1].tool_calls[i].arguments.kwargs.url

\* C22: every URL fetched by a scrape tool call the controller dispatched is
\* afterwards in the scraped-links list that internet_search reads for its
\* prompt.
C22_ScrapedUrlsListed ==
  (pc # "got_response" /\ HasResponse) =>
    \A i \in 1..Len(invoked) :
      invoked[i].name = "scrape" => CallUrl(i) \in Range(get_links_scrapped)
====
